---- MODULE Spec2Model ----
(***************************************************************************)
(* Model of the non-parametric field-wide one-sample t test of             *)
(* modelA/modelA.py (ttest_nonparametric, cluster_integral).               *)
(*                                                                         *)
(* Numbers.  A float is modelled as a record [nan, v]: either NaN or the   *)
(* fixed-point number v / Scale.  Cluster integrals are kept in half       *)
(* units, v / (2*Scale), so that the trapezoidal rule is exact.            *)
(* The inputs are drawn so that no sign-permuted column has zero variance  *)
(* when n >= 2 (no division by zero, hence no infinity); with n < 2 the    *)
(* ddof=1 standard deviation is 0/0 and every statistic is NaN.            *)
(***************************************************************************)
EXTENDS Integers, Sequences, FiniteSets

\* ---------------------------------------------------------------- bounds
MaxObs == 2
MaxPos == 2
MaxLen == 6
Scale  == 1000

\* values an observation can take at one position, and values of the datum
XVals  == {0, 3}
MuVals == {0, 1}
\* values of a statistic field and of a threshold handed to the cluster
\* detection on its own, in units of 1/Scale
FieldVals  == {-6 * Scale, 0, 5 * Scale, 6 * Scale, 7 * Scale}
ThreshVals == {4 * Scale, 6 * Scale}
\* type I error rates, in units of 1/Scale (0.05 is the default, line 166)
Alphas == {(Scale * 5) \div 100, (Scale * 80) \div 100}

VARIABLES pc, x, mu, alpha, y, n, t0, idx, T, tCrit, M, L, nC, p

vars == <<pc, x, mu, alpha, y, n, t0, idx, T, tCrit, M, L, nC, p>>

\* ---------------------------------------------------------------- floats
NaN == [nan |-> TRUE, v |-> 0]

Num(a) == [nan |-> FALSE, v |-> a]

\* a > b of IEEE floats: false as soon as one side is NaN
Gt(a, b) == ~a.nan /\ ~b.nan /\ a.v > b.v

\* np.abs
Abs(a) == IF a.nan THEN NaN ELSE Num(IF a.v < 0 THEN -a.v ELSE a.v)

RECURSIVE SqrtBetween(_, _, _)
SqrtBetween(a, lo, hi) ==
    IF lo >= hi THEN lo
    ELSE LET mid == (lo + hi + 1) \div 2
         IN  IF mid * mid <= a THEN SqrtBetween(a, mid, hi)
                               ELSE SqrtBetween(a, lo, mid - 1)

\* floor of the square root of a >= 0
ISqrt(a) == SqrtBetween(a, 0, 40000)

RECURSIVE SumSeq(_)
SumSeq(s) == IF s = <<>> THEN 0 ELSE Head(s) + SumSeq(Tail(s))

\* ------------------------------------------------------------- statistic
\* col.mean() / col.std(ddof=1) * sqrtN for one domain position, where col
\* holds the n (signed) observations at that position.  With S the sum and
\* Q the sum of squares, mean/std*sqrt(n) = S*sqrt(n-1)/sqrt(n*Q - S*S);
\* the quotient is rounded once, towards zero.
Stat(col) ==
    LET nn == Len(col)
        S  == SumSeq(col)
        Q  == SumSeq([i \in 1..nn |-> col[i] * col[i]])
        D  == nn * Q - S * S
        r  == ISqrt((S * S * (nn - 1) * Scale * Scale) \div D)
    IN  IF nn < 2 \/ D = 0 THEN NaN
        ELSE Num(IF S < 0 THEN -r ELSE r)

\* the statistic field of the observations yy (n rows of m positions)
Field(yy, m) == [j \in 1..m |-> Stat([i \in 1..Len(yy) |-> yy[i][j]])]

\* a product that repeats the first half instead of prefixing 1
RECURSIVE ProductDup(_)
ProductDup(k) ==
    IF k = 0 THEN << <<>> >>
    ELSE LET rest == ProductDup(k - 1)
         IN  [i \in 1..Len(rest) |-> <<0>> \o rest[i]] \o
             [i \in 1..Len(rest) |-> <<0>> \o rest[i]]

\* itertools.product([0,1], repeat=k), in its order
RECURSIVE Product(_)
Product(k) ==
    IF k = 0 THEN << <<>> >>
    ELSE LET rest == Product(k - 1)
         IN  [i \in 1..Len(rest) |-> <<0>> \o rest[i]] \o
             [i \in 1..Len(rest) |-> <<1>> \o rest[i]]

LABELS == Product(n)

\* signs = -2*np.array(labels) + 1
Signs(labels) == [i \in 1..Len(labels) |-> -2 * labels[i] + 1]

\* yy = (y.copy().T*signs).T
Permuted(yy, signs) ==
    [i \in 1..Len(yy) |-> [j \in 1..Len(yy[i]) |-> yy[i][j] * signs[i]]]

\* t.max(): NaN as soon as one element is NaN
FieldMax(t) ==
    IF \E j \in DOMAIN t : t[j].nan THEN NaN
    ELSE Num(CHOOSE a \in {t[j].v : j \in DOMAIN t} :
                 \A j \in DOMAIN t : t[j].v <= a)

\* ------------------------------------------------------------ percentile
\* an insertion that keeps the list in descending order
RECURSIVE InsertDescending(_, _)
InsertDescending(a, s) ==
    IF s = <<>> THEN <<a>>
    ELSE IF a >= Head(s) THEN <<a>> \o s
    ELSE <<Head(s)>> \o InsertDescending(a, Tail(s))

\* np.sort, by insertion
RECURSIVE Insert(_, _)
Insert(a, s) ==
    IF s = <<>> THEN <<a>>
    ELSE IF a <= Head(s) THEN <<a>> \o s
    ELSE <<Head(s)>> \o Insert(a, Tail(s))

RECURSIVE Sort(_)
Sort(s) == IF s = <<>> THEN <<>> ELSE Insert(Head(s), Sort(Tail(s)))

\* the 100*al-th percentile instead of the 100*(1-al)-th
PercentileOfAlpha(dist, al) ==
    IF \E i \in DOMAIN dist : dist[i].nan THEN NaN
    ELSE LET a   == Sort([i \in DOMAIN dist |-> dist[i].v])
             pos == al * (Len(dist) - 1)
             lo  == pos \div Scale
             fr  == pos % Scale
         IN  IF fr = 0 THEN Num(a[lo + 1])
             ELSE Num(a[lo + 1] + (fr * (a[lo + 2] - a[lo + 1])) \div Scale)

\* np.percentile(dist, 100*(1-al)), linear interpolation between the two
\* closest ranks; NaN when the distribution holds a NaN
Percentile(dist, al) ==
    IF \E i \in DOMAIN dist : dist[i].nan THEN NaN
    ELSE LET a   == Sort([i \in DOMAIN dist |-> dist[i].v])
             pos == (Scale - al) * (Len(dist) - 1)
             lo  == pos \div Scale
             fr  == pos % Scale
         IN  IF fr = 0 THEN Num(a[lo + 1])
             ELSE Num(a[lo + 1] + (fr * (a[lo + 2] - a[lo + 1])) \div Scale)

\* ------------------------------------------------------------- clusters
\* np.abs(t) > thresh, one boolean per position
Supra(t, thresh) == [j \in DOMAIN t |-> Gt(Abs(t[j]), thresh)]

\* a scan that never opens a second label: runs are merged across gaps
RECURSIVE LabelScanMerge(_, _, _, _)
LabelScanMerge(mask, j, cur, acc) ==
    IF j > Len(mask) THEN acc
    ELSE IF ~mask[j] THEN LabelScanMerge(mask, j + 1, cur, Append(acc, 0))
    ELSE LabelScanMerge(mask, j + 1, 1, Append(acc, 1))

\* ndimage.label of a 1-D boolean field: one left-to-right scan that gives
\* every run of True positions the next integer, and 0 elsewhere
RECURSIVE LabelScan(_, _, _, _)
LabelScan(mask, j, cur, acc) ==
    IF j > Len(mask) THEN acc
    ELSE IF ~mask[j] THEN LabelScan(mask, j + 1, cur, Append(acc, 0))
    ELSE IF j > 1 /\ mask[j - 1] THEN LabelScan(mask, j + 1, cur, Append(acc, cur))
    ELSE LabelScan(mask, j + 1, cur + 1, Append(acc, cur + 1))

Label(mask) == LabelScan(mask, 1, 0, <<>>)

\* the number of features nC that ndimage.label returns
NumLabels(lab) ==
    IF lab = <<>> THEN 0
    ELSE CHOOSE c \in {lab[j] : j \in DOMAIN lab} : \A j \in DOMAIN lab : lab[j] <= c

\* z[i] for a boolean index array i: the selected elements, in order
RECURSIVE Select(_, _)
Select(z, i) ==
    IF z = <<>> THEN <<>>
    ELSE IF Head(i) THEN <<Head(z)>> \o Select(Tail(z), Tail(i))
    ELSE Select(Tail(z), Tail(i))

\* np.trapz with unit spacing, in half units: sum of (a[k] + a[k+1])
Trapz2(a) == SumSeq([k \in 1..(Len(a) - 1) |-> a[k] + a[k + 1]])

\* the trapezoidal rule also for a single point (which gives 0)
cluster_integral_trapz_only(z, thresh, i) ==
    LET sel == Select(z, i)
        d   == [k \in 1..Len(sel) |-> sel[k].v - thresh.v]
    IN  Trapz2(d)

\* cluster_integral(z, thresh, i), in half units
cluster_integral(z, thresh, i) ==
    LET sel == Select(z, i)
        d   == [k \in 1..Len(sel) |-> sel[k].v - thresh.v]
    IN  IF Len(sel) = 1 THEN 2 * d[1] ELSE Trapz2(d)

\* [cluster_integral(np.abs(t), thresh, L==(i+1)) for i in range(nC)]
Integrals(t, thresh) ==
    LET lab  == Label(Supra(t, thresh))
        nc == NumLabels(lab)
        z  == [j \in DOMAIN t |-> Abs(t[j])]
    IN  [c \in 1..nc |-> cluster_integral(z, thresh, [j \in DOMAIN lab |-> lab[j] = c])]

\* max(m) of a non-empty list
MaxSeq(s) == CHOOSE a \in {s[k] : k \in DOMAIN s} : \A k \in DOMAIN s : s[k] <= a

\* the maximum cluster integral of a field, 0 when it has no cluster
MaxIntegral(t, thresh) ==
    LET m == Integrals(t, thresh)
    IN  IF Len(m) > 0 THEN MaxSeq(m) ELSE 0

\* (M >= m).mean(): the entries equal to m are counted too
FracGreaterOrEqual(dist, m) ==
    [num |-> Cardinality({k \in DOMAIN dist : dist[k] >= m}), den |-> Len(dist)]

\* (M > m).mean() as the fraction count / M.size
FracGreater(dist, m) ==
    [num |-> Cardinality({k \in DOMAIN dist : dist[k] > m}), den |-> Len(dist)]

\* the fraction without the floor
RatFirst(a, b) == a

\* max(pp, 1.0/M.size) of two fractions
RatMax(a, b) == IF a.num * b.den >= b.num * a.den THEN a ELSE b

\* a result that is a list even without cluster
PResultAlwaysList(t, thresh, dist) ==
    LET m0 == Integrals(t, thresh)
    IN  [nan  |-> FALSE,
         list |-> [c \in 1..Len(m0) |->
                     RatMax(FracGreater(dist, m0[c]),
                            [num |-> 1, den |-> Len(dist)])]]

\* lines 212-218: the p values of the clusters of t, or NaN without cluster
PResult(t, thresh, dist) ==
    LET m0 == Integrals(t, thresh)
    IN  IF Len(m0) > 0
        THEN [nan  |-> FALSE,
              list |-> [c \in 1..Len(m0) |->
                          RatMax(FracGreater(dist, m0[c]),
                                 [num |-> 1, den |-> Len(dist)])]]
        ELSE [nan |-> TRUE, list |-> <<>>]

\* ------------------------------------------------------------ the program
Degenerate(col) == \A i, k \in DOMAIN col : col[i] * col[i] = col[k] * col[k]

Init ==
    /\ pc = "start"
    /\ \E nn \in 0..MaxObs, m \in 1..MaxPos :
         /\ x \in [1..m -> [1..nn -> XVals]]
         /\ mu \in [1..m -> MuVals]
         /\ nn >= 2 => \A j \in 1..m : ~Degenerate([i \in 1..nn |-> x[j][i] - mu[j]])
    /\ alpha \in Alphas
    /\ y = <<>>
    /\ n = 0
    /\ t0 = <<>>
    /\ idx = 0
    /\ T = <<>>
    /\ tCrit = NaN
    /\ M = <<>>
    /\ L = <<>>
    /\ nC = 0
    /\ p = [nan |-> FALSE, list |-> <<>>]

\* lines 181-188: datum-corrected observations, n, the statistic field
Preliminaries ==
    /\ pc = "start"
    /\ LET yy == [i \in 1..Len(x[1]) |-> [j \in 1..Len(mu) |-> x[j][i] - mu[j]]]
       IN  /\ y' = yy
           /\ n' = Len(yy)
           /\ t0' = Field(yy, Len(mu))
    /\ T' = <<>>
    /\ idx' = 1
    /\ pc' = "primary"
    /\ UNCHANGED <<x, mu, alpha, tCrit, M, L, nC, p>>

\* lines 189-193: one iteration of the primary loop
PrimaryStep ==
    /\ pc = "primary"
    /\ idx <= Len(LABELS)
    /\ LET signs == Signs(LABELS[idx])
           yy    == Permuted(y, signs)
           t     == Field(yy, Len(mu))
       IN  T' = Append(T, FieldMax(t))
    /\ idx' = idx + 1
    /\ UNCHANGED <<pc, x, mu, alpha, y, n, t0, tCrit, M, L, nC, p>>

\* lines 194-198: the critical threshold
Threshold ==
    /\ pc = "primary"
    /\ idx > Len(LABELS)
    /\ tCrit' = Percentile(T, alpha)
    /\ M' = <<>>
    /\ idx' = 1
    /\ pc' = "secondary"
    /\ UNCHANGED <<x, mu, alpha, y, n, t0, T, L, nC, p>>

\* an iteration that overwrites the threshold with the maximum of its field
SecondaryStepClobber ==
    /\ pc = "secondary"
    /\ idx <= Len(LABELS)
    /\ LET signs == Signs(LABELS[idx])
           yy    == Permuted(y, signs)
           t     == Field(yy, Len(mu))
       IN  /\ L' = Label(Supra(t, tCrit))
           /\ nC' = NumLabels(L')
           /\ M' = Append(M, MaxIntegral(t, tCrit))
           /\ tCrit' = FieldMax(t)
    /\ idx' = idx + 1
    /\ UNCHANGED <<pc, x, mu, alpha, y, n, t0, T, p>>

\* lines 199-209: one iteration of the secondary loop
SecondaryStep ==
    /\ pc = "secondary"
    /\ idx <= Len(LABELS)
    /\ LET signs == Signs(LABELS[idx])
           yy    == Permuted(y, signs)
           t     == Field(yy, Len(mu))
       IN  /\ L' = Label(Supra(t, tCrit))
           /\ nC' = NumLabels(L')
           /\ M' = Append(M, MaxIntegral(t, tCrit))
    /\ idx' = idx + 1
    /\ UNCHANGED <<pc, x, mu, alpha, y, n, t0, T, tCrit, p>>

\* lines 210-219: the p values of the clusters of t0, and the return
PValues ==
    /\ pc = "secondary"
    /\ idx > Len(LABELS)
    /\ L' = Label(Supra(t0, tCrit))
    /\ nC' = NumLabels(L')
    /\ p' = PResult(t0, tCrit, M)
    /\ pc' = "done"
    /\ UNCHANGED <<x, mu, alpha, y, n, t0, idx, T, tCrit, M>>

Next == Preliminaries \/ PrimaryStep \/ Threshold \/ SecondaryStep \/ PValues

Spec == Init /\ [][Next]_vars

\* ------------------------------------------- cluster detection on its own
\* line 212 applied to any statistic field and any threshold
InitCluster ==
    /\ pc = "label"
    /\ \E m \in 1..MaxLen : t0 \in [1..m -> {Num(a) : a \in FieldVals}]
    /\ tCrit \in {Num(a) : a \in ThreshVals}
    /\ x = <<>>
    /\ mu = <<>>
    /\ alpha = 0
    /\ y = <<>>
    /\ n = 0
    /\ idx = 0
    /\ T = <<>>
    /\ M = <<>>
    /\ L = <<>>
    /\ nC = 0
    /\ p = [nan |-> FALSE, list |-> <<>>]

DetectClusters ==
    /\ pc = "label"
    /\ L' = Label(Supra(t0, tCrit))
    /\ nC' = NumLabels(L')
    /\ pc' = "labelled"
    /\ UNCHANGED <<x, mu, alpha, y, n, t0, idx, T, tCrit, M, p>>

SpecCluster == InitCluster /\ [][DetectClusters]_vars

\* ttest_nonparametric on observations that are uniform along the field,
\* tested against a datum that varies along it: the field can be one
\* position longer than in Init, so that t0 can have two separate clusters
DatumVals == {0, 1, 6}

InitUniform ==
    /\ pc = "start"
    /\ \E nn \in 0..MaxObs, m \in 1..(MaxPos + 1) :
         /\ \E obs \in [1..nn -> XVals] : x = [j \in 1..m |-> obs]
         /\ mu \in [1..m -> DatumVals]
         /\ nn >= 2 => \A j \in 1..m : ~Degenerate([i \in 1..nn |-> x[j][i] - mu[j]])
    /\ alpha \in Alphas
    /\ y = <<>>
    /\ n = 0
    /\ t0 = <<>>
    /\ idx = 0
    /\ T = <<>>
    /\ tCrit = NaN
    /\ M = <<>>
    /\ L = <<>>
    /\ nC = 0
    /\ p = [nan |-> FALSE, list |-> <<>>]

SpecUniform == InitUniform /\ [][Next]_vars

\* ================================================================ claims
RECURSIVE Pow2(_)
Pow2(k) == IF k = 0 THEN 1 ELSE 2 * Pow2(k - 1)

\* the statistic field of the k-th relabeling
PermutedField(k) == Field(Permuted(y, Signs(LABELS[k])), Len(mu))

AfterThreshold == pc \in {"secondary", "done"}

\* ---------------------------------------------------------------- C1
\* C1: every p-value reported for a supra-threshold cluster of t0 is at
\* least 1 / (number of entries of the secondary distribution M), hence
\* never zero.
C1_PValueFloor ==
    (pc = "done" /\ ~p.nan) =>
        \A c \in DOMAIN p.list :
            /\ p.list[c].num > 0
            /\ p.list[c].num * Len(M) >= p.list[c].den

\* a finished run with a cluster of t0 that no secondary entry exceeds, so
\* that the floor is what is reported
C1_Witness ==
    /\ pc = "done"
    /\ ~p.nan
    /\ n >= 2
    /\ \E c \in DOMAIN p.list :
         /\ FracGreater(M, Integrals(t0, tCrit)[c]).num = 0
         /\ p.list[c] = [num |-> 1, den |-> Len(M)]

\* ---------------------------------------------------------------- C2
\* C2: the critical threshold is non-negative for every input, also for
\* alpha > 0.5 (stated for the runs whose threshold is a number).
C2_TCritNonNegative == (AfterThreshold /\ ~tCrit.nan) => tCrit.v >= 0

\* ---------------------------------------------------------------- C3
\* the number of primary-distribution samples that are <= tCrit
CountLeqTCrit == Cardinality({k \in DOMAIN T : ~T[k].nan /\ T[k].v <= tCrit.v})

\* C3 as claimed: at least ceil((1-alpha)*2^n) of the primary samples are
\* <= the critical threshold (stated for the runs whose threshold is a number).
C3_AtLeastCeil ==
    (AfterThreshold /\ ~tCrit.nan) =>
        CountLeqTCrit * Scale >= (Scale - alpha) * Len(T)

\* C3 as amended: whenever the threshold is a number, at least
\* floor((1-alpha)*(2^n - 1)) + 1 of the 2^n primary samples are <= it.
C3_AtLeastFloorRankPlusOne ==
    (AfterThreshold /\ ~tCrit.nan) =>
        /\ Len(T) = Pow2(n)
        /\ CountLeqTCrit >= ((Scale - alpha) * (Pow2(n) - 1)) \div Scale + 1

\* a run where exactly floor((1-alpha)*(2^n - 1)) + 1 samples are <= tCrit,
\* fewer than ceil((1-alpha)*2^n)
C3_Witness ==
    /\ AfterThreshold
    /\ ~tCrit.nan
    /\ CountLeqTCrit = ((Scale - alpha) * (Pow2(n) - 1)) \div Scale + 1
    /\ CountLeqTCrit * Scale < (Scale - alpha) * Len(T)

\* ---------------------------------------------------------------- C4
\* the largest absolute value of a field of numbers
MaxAbsOf(t) ==
    CHOOSE a \in {Abs(t[j]).v : j \in DOMAIN t} :
        \A j \in DOMAIN t : Abs(t[j]).v <= a

\* C4: the value recorded in the primary distribution for a relabeling is
\* the maximum absolute value of its sign-permuted statistic field.
C4_PrimaryIsMaxAbs ==
    \A k \in DOMAIN T :
        ~T[k].nan => T[k].v = MaxAbsOf(PermutedField(k))

\* ---------------------------------------------------------------- C5
\* C5: the relabelings are exactly the 2^n sign vectors of {+1,-1}^n, each
\* once, in the fixed order of counting in binary (0 -> +1, 1 -> -1), the
\* first one all positive; both distributions end with 2^n entries.
C5_Enumeration ==
    pc # "start" =>
        LET labs == LABELS
            size == Pow2(n)
        IN  /\ n = Len(x[1])
            /\ Len(labs) = size
            /\ {Signs(labs[k]) : k \in 1..Len(labs)} = [1..n -> {1, -1}]
            /\ \A k \in 1..Len(labs) : \A i \in 1..n :
                   labs[k][i] = ((k - 1) \div Pow2(n - i)) % 2
            /\ \A i \in 1..n : Signs(labs[1])[i] = 1
            /\ pc = "primary" => Len(T) = idx - 1
            /\ AfterThreshold => Len(T) = size
            /\ pc = "secondary" => Len(M) = idx - 1
            /\ pc = "done" => Len(M) = size

\* a finished run over two observations: four relabelings, four entries each
C5_Witness == pc = "done" /\ n = 2 /\ Len(T) = 4 /\ Len(M) = 4

\* ---------------------------------------------------------------- C6
AlphaGrid == {(Scale * k) \div 10 : k \in 1..9}

\* the state that line 196 leaves: T is complete and tCrit just computed
ThresholdComputed == pc = "secondary" /\ idx = 1

\* C6: for the same observations and datum, a larger alpha never gives a
\* larger critical threshold.
C6_Monotone ==
    ThresholdComputed =>
        \A a \in AlphaGrid :
            /\ a >= alpha => ~Gt(Percentile(T, a), tCrit)
            /\ a <= alpha => ~Gt(tCrit, Percentile(T, a))
            /\ \A b \in AlphaGrid :
                   a <= b => ~Gt(Percentile(T, b), Percentile(T, a))

\* a run whose threshold strictly drops for some larger alpha
C6_Witness ==
    /\ ThresholdComputed
    /\ n >= 2
    /\ \E a \in AlphaGrid : a > alpha /\ Gt(tCrit, Percentile(T, a))

\* ---------------------------------------------------------------- C7
\* position j of field t is above the threshold in absolute value
Above(t, thresh, j) ==
    /\ ~t[j].nan
    /\ ~thresh.nan
    /\ (IF t[j].v < 0 THEN -t[j].v ELSE t[j].v) > thresh.v

\* the maximal contiguous runs <<a, b>> of positions above the threshold
Runs(t, thresh) ==
    {r \in (DOMAIN t) \X (DOMAIN t) :
        /\ r[1] <= r[2]
        /\ \A j \in r[1]..r[2] : Above(t, thresh, j)
        /\ r[1] = 1 \/ ~Above(t, thresh, r[1] - 1)
        /\ r[2] = Len(t) \/ ~Above(t, thresh, r[2] + 1)}

\* C7: cluster detection yields exactly the maximal contiguous runs of
\* positions with abs(statistic) > threshold, labelled 1..nC from left to
\* right; runs separated by a sub-threshold position are never merged and
\* the two ends of the field are never joined.
C7_LabelsAreRuns ==
    pc = "labelled" =>
        /\ Len(L) = Len(t0)
        /\ nC = Cardinality(Runs(t0, tCrit))
        /\ \A j \in DOMAIN L : (L[j] # 0) <=> Above(t0, tCrit, j)
        /\ \A j \in DOMAIN L : L[j] \in 0..nC
        /\ \A c \in 1..nC : \E r \in Runs(t0, tCrit) :
               {j \in DOMAIN L : L[j] = c} = r[1]..r[2]
        /\ \A i, j \in DOMAIN L :
               (i < j /\ L[i] # 0 /\ L[j] # 0) =>
                   /\ L[i] <= L[j]
                   /\ (L[i] = L[j]) <=> \A k \in i..j : Above(t0, tCrit, k)

\* the field [0,5,6,0,7,0] at threshold 4: runs [1,2] and [4,4] (0-based)
C7_Witness ==
    /\ pc = "labelled"
    /\ t0 = <<Num(0), Num(5 * Scale), Num(6 * Scale), Num(0), Num(7 * Scale), Num(0)>>
    /\ tCrit = Num(4 * Scale)
    /\ L = <<0, 1, 1, 0, 2, 0>>
    /\ nC = 2

\* ---------------------------------------------------------------- C8
RECURSIVE TrapezoidSum2(_, _, _, _)
\* twice the unit-spacing trapezoidal sum of (abs(t) - thresh) over a..b
TrapezoidSum2(t, thresh, a, b) ==
    IF a >= b THEN 0
    ELSE (Abs(t[a]).v - thresh.v) + (Abs(t[a + 1]).v - thresh.v)
         + TrapezoidSum2(t, thresh, a + 1, b)

\* twice the integral of the run a..b
RunIntegral2(t, thresh, a, b) ==
    IF a = b THEN 2 * (Abs(t[a]).v - thresh.v)
    ELSE TrapezoidSum2(t, thresh, a, b)

\* twice the largest run integral of a field, 0 without run
MaxRunIntegral2(t, thresh) ==
    LET rs == Runs(t, thresh)
    IN  IF rs = {} THEN 0
        ELSE CHOOSE a \in {RunIntegral2(t, thresh, r[1], r[2]) : r \in rs} :
                 \A r \in rs : RunIntegral2(t, thresh, r[1], r[2]) <= a

C9_NoClusterSentinel ==
    /\ pc \in {"start", "primary", "secondary", "done"}
    /\ pc # "done" => p = [nan |-> FALSE, list |-> <<>>]
    /\ pc = "done" =>
          /\ p.nan <=> Runs(t0, tCrit) = {}
          /\ p.nan => p.list = <<>>
          /\ ~p.nan => /\ Len(p.list) = Cardinality(Runs(t0, tCrit))
                       /\ Len(p.list) >= 1
                       /\ \A c \in DOMAIN p.list : p.list[c].den > 0

\* a finished run over two or more observations whose numeric statistic
\* field lies entirely at or below the threshold
C9_Witness ==
    /\ pc = "done"
    /\ n >= 2
    /\ ~tCrit.nan
    /\ \A j \in DOMAIN t0 : ~Above(t0, tCrit, j)
    /\ p.nan

\* ---------------------------------------------------------------- C10
\* C10: with fewer than 2 observations the test stops with an input error
\* before any relabeling is enumerated: nothing enters the primary or the
\* secondary distribution and no result is returned.
C10_FailsBeforeEnumeration ==
    Len(x[1]) < 2 => (T = <<>> /\ M = <<>> /\ pc # "done")

\* ---------------------------------------------------------------- C11
\* the r-th smallest value (r = 1, 2, ...) of a distribution of numbers
OrderStat(dist, r) ==
    CHOOSE a \in {dist[i].v : i \in DOMAIN dist} :
        /\ Cardinality({i \in DOMAIN dist : dist[i].v < a}) < r
        /\ Cardinality({i \in DOMAIN dist : dist[i].v <= a}) >= r

\* the 100*(1-al)-th percentile of dist, by linear interpolation between
\* the two order statistics that enclose the rank (1-al)*(size-1)
RankInterpolation(dist, al) ==
    IF \E i \in DOMAIN dist : dist[i].nan THEN NaN
    ELSE LET pos == (Scale - al) * (Len(dist) - 1)
             lo  == pos \div Scale
             fr  == pos % Scale
         IN  IF fr = 0 THEN Num(OrderStat(dist, lo + 1))
             ELSE Num(OrderStat(dist, lo + 1)
                      + (fr * (OrderStat(dist, lo + 2) - OrderStat(dist, lo + 1)))
                        \div Scale)

\* before line 196 there is neither a threshold nor a secondary entry
C11_NothingBeforeThreshold ==
    pc \in {"start", "primary"} => (tCrit = NaN /\ M = <<>>)

\* what every step does with the threshold
C11_Step ==
    /\ tCrit' # tCrit => (pc = "primary" /\ pc' = "secondary")
    /\ (pc = "primary" /\ pc' = "secondary") =>
           /\ Len(T) = Pow2(n)
           /\ T' = T
           /\ M' = <<>>
           /\ tCrit' = RankInterpolation(T, alpha)
    /\ AfterThreshold =>
           /\ pc' \in {"secondary", "done"}
           /\ tCrit' = tCrit
           /\ T' = T
           /\ alpha' = alpha
    /\ M' # M =>
           /\ pc = "secondary"
           /\ M' = Append(M, MaxRunIntegral2(PermutedField(Len(M) + 1), tCrit'))
    /\ (pc = "secondary" /\ pc' = "done") =>
           /\ Len(M) = Pow2(n)
           /\ \A j \in DOMAIN t0 : (L'[j] # 0) <=> Above(t0, tCrit', j)

\* C11: the critical threshold is computed once, at the step from the
\* primary to the secondary loop, when the primary distribution holds all
\* 2^n entries, and is the percentile of that distribution at alpha; no
\* secondary entry exists before; the threshold never changes afterwards,
\* and every secondary entry and the cluster detection on t0 use it.
C11_ThresholdOnce == []C11_NothingBeforeThreshold /\ [][C11_Step]_vars

\* a finished run with clusters whose numeric threshold is the percentile
\* of the complete primary distribution
C11_Witness ==
    /\ pc = "done"
    /\ n >= 2
    /\ Len(T) = Pow2(n)
    /\ Len(M) = Pow2(n)
    /\ ~tCrit.nan
    /\ tCrit = RankInterpolation(T, alpha)
    /\ ~p.nan

====
